---- MODULE Spec2Model ----
(***************************************************************************)
(* server.js: an Express application over a MariaDB connection pool.       *)
(* Seven routes; each handler is an async function that suspends at        *)
(* `await getDbConnection()` and at `await req.db.query(...)`.             *)
(*                                                                         *)
(* Strings are sequences of one-character strings, so that trim(),         *)
(* escape() and isLength() are computed, not assumed.                      *)
(***************************************************************************)
EXTENDS Integers, Sequences, FiniteSets, TLC

VARIABLES
    company,    \* the rows of table `company`: records [id, name, city]
    inUse,      \* connections of `pool` checked out and not released
    req,        \* per in-flight request: the handler's position and req/res
    prev        \* the last statement that changed `company`: <<route, id>>

vars == <<company, inUse, req, prev>>

----------------------------------------------------------------------------
(* Bounds and program constants *)

\* connections the pool hands out before getConnection() waits (scaled down)
PoolLimit == 1

\* isLength({ min: 1, max: 6 }) on companyId
MinLen == 1
MaxIdLen == 6
\* isLength({ min: 1, max: 25 }) on companyName and companyCity
MaxFieldLen == 25

\* the handler slots: requests that can be in flight at once
Requests == {"r1", "r2"}

\* JavaScript `undefined`: a field missing from req.body
Undefined == <<"undefined">>

Repeat(c, n) == [i \in 1..n |-> c]

\* The request contents offered to the routes: companyId (path or body),
\* companyName and companyCity (body).
IdInputs == { <<"a">>, <<" ", "a">>, Repeat("a", MaxIdLen + 1) }
NameInputs == { Undefined, <<"x">>, <<" ", "<", " ">>, Repeat("x", MaxFieldLen + 1) }
CityInputs == { Undefined, <<"p">>, <<"q", " ">> }

\* The contents offered when two requests are in flight together.
IdInputs2 == { <<"a">>, Repeat("a", MaxIdLen + 1) }
NameInputs2 == { Undefined, <<" ", "<", " ">> }
CityInputs2 == { <<"p">> }

MutatingRoutes == {"POST", "PATCH", "PUT", "DELETE"}
ReadRoutes == {"GET_items", "GET_studenttitles", "GET_companies"}
Routes == MutatingRoutes \cup ReadRoutes

----------------------------------------------------------------------------
(* express-validator chain steps and String.prototype.trim *)

IsSpace(c) == c = " "

RECURSIVE TrimLeft(_)
TrimLeft(s) ==
    IF s # <<>> /\ IsSpace(Head(s)) THEN TrimLeft(Tail(s)) ELSE s

RECURSIVE TrimRight(_)
TrimRight(s) ==
    IF s # <<>> /\ IsSpace(s[Len(s)]) THEN TrimRight(SubSeq(s, 1, Len(s) - 1)) ELSE s

\* .trim()
trim(s) == TrimRight(TrimLeft(s))

EscapeChar(c) ==
    CASE c = "<" -> <<"&", "l", "t", ";">>
      [] c = ">" -> <<"&", "g", "t", ";">>
      [] c = "&" -> <<"&", "a", "m", "p", ";">>
      [] OTHER   -> <<c>>

\* .escape()
RECURSIVE escape(_)
escape(s) == IF s = <<>> THEN <<>> ELSE EscapeChar(Head(s)) \o escape(Tail(s))

\* .isLength({ min, max })
isLength(s, min, max) == Len(s) >= min /\ Len(s) <= max

\* express-validator turns a missing value into "" before a sanitizer runs
toStr(v) == IF v = Undefined THEN <<>> ELSE v

\* param('companyId').isLength({ min: 1, max: 6 }) / body('companyId')...
IdInvalid(id) == ~isLength(toStr(id), MinLen, MaxIdLen)

\* every body value offered for companyName or companyCity
FieldInputs == NameInputs \cup CityInputs \cup NameInputs2 \cup CityInputs2

\* body(f).trim().isLength({ min: 1, max: 25 }).escape(), applied to each
\* offered value: does isLength pass, and what the chain leaves in req.body
chainPasses == [v \in FieldInputs |-> isLength(trim(toStr(v)), MinLen, MaxFieldLen)]
chainValue == [v \in FieldInputs |-> escape(trim(toStr(v)))]

\* the chain records an error for the field
FieldInvalid(v) == ~chainPasses[v]

\* body(f).optional().trim()...: a missing field is skipped
OptionalFieldInvalid(v) == v # Undefined /\ FieldInvalid(v)

\* the value the chain leaves in req.body
Sanitized(v) == chainValue[v]
OptionalSanitized(v) == IF v = Undefined THEN Undefined ELSE Sanitized(v)

\* validationResult(req).isEmpty() is false
ValidationErrors(route, id, name, city) ==
    CASE route = "POST"   -> IdInvalid(id) \/ FieldInvalid(name) \/ FieldInvalid(city)
      [] route = "PUT"    -> IdInvalid(id) \/ FieldInvalid(name) \/ FieldInvalid(city)
      [] route = "PATCH"  -> IdInvalid(id) \/ OptionalFieldInvalid(name)
                                           \/ OptionalFieldInvalid(city)
      [] route = "DELETE" -> IdInvalid(id)
      [] OTHER            -> FALSE

\* !companyName in JavaScript: undefined or the empty string
Falsy(v) == v = Undefined \/ v = <<>>

----------------------------------------------------------------------------
(* The SQL statements, as MariaDB executes them on `company`.  COMPANY_ID  *)
(* is the key that ON DUPLICATE KEY names.  A statement yields the         *)
(* driver's result object, or throws (error = TRUE).                       *)

\* mariadb.createPool sets no `foundRows` option, so the connector's default
\* applies: affectedRows counts the rows matched, not the rows changed
foundRows == TRUE

Row(id, name, city) == [id |-> id, name |-> name, city |-> city]

HasRow(t, id) == \E row \in t : row.id = id

Result(err, affected, t) ==
    [error |-> err, affectedRows |-> affected, warningStatus |-> 0, table |-> t]

\* INSERT INTO company (COMPANY_ID, COMPANY_NAME, COMPANY_CITY) VALUES (?, ?, ?)
Insert(t, id, name, city) ==
    IF HasRow(t, id)
    THEN Result(TRUE, 0, t)
    ELSE Result(FALSE, 1, t \cup {Row(id, name, city)})

\* a handler that sent every column, supplied or not
UpdateAllColumns(t, id, name, city) ==
    Result(FALSE, Cardinality({row \in t : row.id = id}),
           {IF row.id = id THEN Row(row.id, name, city) ELSE row : row \in t})

\* UPDATE company SET <supplied columns> WHERE COMPANY_ID = ?
Update(t, id, name, city) ==
    LET set(row) == Row(row.id,
                        IF Falsy(name) THEN row.name ELSE name,
                        IF Falsy(city) THEN row.city ELSE city)
        matched == {row \in t : row.id = id}
        changed == {row \in matched : set(row) # row}
    IN  Result(FALSE,
               IF foundRows THEN Cardinality(matched) ELSE Cardinality(changed),
               {IF row.id = id THEN set(row) ELSE row : row \in t})

\* INSERT ... ON DUPLICATE KEY UPDATE COMPANY_NAME = ?, COMPANY_CITY = ?
Upsert(t, id, name, city) ==
    IF ~HasRow(t, id)
    THEN Result(FALSE, 1, t \cup {Row(id, name, city)})
    ELSE IF Row(id, name, city) \in t
         THEN Result(FALSE, IF foundRows THEN 1 ELSE 0, t)
         ELSE Result(FALSE, 2,
                     {IF row.id = id THEN Row(id, name, city) ELSE row : row \in t})

\* DELETE FROM company WHERE COMPANY_ID = ?
Delete(t, id) ==
    Result(FALSE, Cardinality({row \in t : row.id = id}),
           {row \in t : row.id # id})

\* rows.map(row => ({ id: row.COMPANY_ID.trim(), name: ..., city: ... }))
CompanyList(t) == {Row(trim(row.id), trim(row.name), trim(row.city)) : row \in t}

----------------------------------------------------------------------------
(* Requests *)

Idle ==
    [route |-> "none", pc |-> "idle",
     companyId |-> Undefined, companyName |-> Undefined, companyCity |-> Undefined,
     errors |-> FALSE,      \* validationResult(req) is not empty
     db |-> FALSE,          \* req.db is set
     status |-> 0,          \* the response's status; 0: no response sent
     body |-> "none",       \* which body the response carries
     raised |-> FALSE,      \* the handler's promise rejected
     sql |-> 0,             \* statements executed for this request
     fault |-> FALSE,       \* the database failed the statement
     list |-> {}]           \* companyList of the response

Init ==
    /\ company = {}
    /\ inUse = 0
    /\ req = [r \in Requests |-> Idle]
    /\ prev = <<"none", Undefined>>

\* the handler has returned (or thrown); the slot takes the next request
Finished(q) == q.pc \in {"idle", "done"}

Respond(q, status, body) == [q EXCEPT !.status = status, !.body = body, !.pc = "done"]

\* A request arrives: the validation chains run and sanitize req.body, the
\* handler starts and suspends in `await getDbConnection()`.
Arrive(r, routes, ids, names, cities) ==
    /\ Finished(req[r])
    /\ \E route \in routes :
       \E id \in IF route \in MutatingRoutes THEN ids ELSE {Undefined} :
       \E name \in IF route \in {"POST", "PATCH", "PUT"} THEN names ELSE {Undefined} :
       \E city \in IF route \in {"POST", "PATCH", "PUT"} THEN cities ELSE {Undefined} :
          req' = [req EXCEPT ![r] =
                    [Idle EXCEPT !.route = route, !.pc = "acquire",
                                 !.companyId = id,
                                 !.companyName = IF route = "PATCH"
                                                 THEN OptionalSanitized(name)
                                                 ELSE IF route \in {"POST", "PUT"}
                                                      THEN Sanitized(name) ELSE Undefined,
                                 !.companyCity = IF route = "PATCH"
                                                 THEN OptionalSanitized(city)
                                                 ELSE IF route \in {"POST", "PUT"}
                                                      THEN Sanitized(city) ELSE Undefined,
                                 !.errors = ValidationErrors(route, id, name, city)]]
    /\ UNCHANGED <<company, inUse, prev>>

\* what the handler does between `req.db = await getDbConnection()` and its
\* next await: the validationResult check, PATCH's at-least-one-field check
AfterConnection(q) ==
    LET c == [q EXCEPT !.db = TRUE] IN
    IF c.route \in MutatingRoutes /\ c.errors
    THEN Respond(c, 400, "errors")
    ELSE IF c.route = "PATCH" /\ Falsy(c.companyName) /\ Falsy(c.companyCity)
         THEN Respond(c, 400, "atLeastOne")
         ELSE [c EXCEPT !.pc = "query"]

\* pool.getConnection() resolves
GetDbConnection(r) ==
    /\ req[r].pc = "acquire"
    /\ inUse < PoolLimit
    /\ inUse' = inUse + 1
    /\ req' = [req EXCEPT ![r] = AfterConnection(req[r])]
    /\ UNCHANGED <<company, prev>>

\* pool.getConnection() rejects after acquireTimeout with every connection
\* checked out; getDbConnection rethrows Error('Internal server error').
\* POST, PATCH, PUT, DELETE await it outside any try: the handler's promise
\* rejects with no response sent by the handler; what the client then gets is
\* the framework's doing (nothing, or its own error page).
\* The GET routes await it inside try: catch responds 500, then finally
\* calls release() on the undefined req.db and throws a TypeError.
GetDbConnectionRejects(r) ==
    /\ req[r].pc = "acquire"
    /\ inUse = PoolLimit
    /\ IF req[r].route \in MutatingRoutes
       THEN \E out \in {<<0, "none">>, <<500, "framework">>} :
               req' = [req EXCEPT ![r] =
                         [Respond(req[r], out[1], out[2]) EXCEPT !.raised = TRUE]]
       ELSE req' = [req EXCEPT ![r] =
                      [Respond(req[r], 500, "internal") EXCEPT !.raised = TRUE]]
    /\ UNCHANGED <<company, inUse, prev>>

\* the statement ran: the response, then `finally { req.db.release() }`
Settle(r, res, status, body, changed) ==
    /\ company' = res.table
    /\ inUse' = inUse - 1
    /\ req' = [req EXCEPT ![r] = [Respond(req[r], status, body) EXCEPT !.sql = 1]]
    /\ prev' = IF changed THEN <<req[r].route, req[r].companyId>> ELSE prev

AtQuery(r, route) == req[r].pc = "query" /\ req[r].route = route

PostCompany(r) ==
    /\ AtQuery(r, "POST")
    /\ LET q == req[r]
           res == Insert(company, q.companyId, q.companyName, q.companyCity)
       IN IF res.error
          THEN Settle(r, res, 500, "internal", FALSE)
          ELSE Settle(r, res, 201, "created", TRUE)

PatchCompany(r) ==
    /\ AtQuery(r, "PATCH")
    /\ LET q == req[r]
           res == Update(company, q.companyId, q.companyName, q.companyCity)
       IN IF res.affectedRows = 0
          THEN Settle(r, res, 404, "notFound", FALSE)
          ELSE Settle(r, res, 200, "updated", TRUE)

PutCompany(r) ==
    /\ AtQuery(r, "PUT")
    /\ LET q == req[r]
           res == Upsert(company, q.companyId, q.companyName, q.companyCity)
       IN IF res.affectedRows = 1 /\ res.warningStatus = 0
          THEN Settle(r, res, 201, "created", TRUE)
          ELSE Settle(r, res, 200, "updated", TRUE)

DeleteCompany(r) ==
    /\ AtQuery(r, "DELETE")
    /\ LET res == Delete(company, req[r].companyId)
       IN IF res.affectedRows = 0
          THEN Settle(r, res, 404, "notFound", FALSE)
          ELSE Settle(r, res, 200, "deleted", TRUE)

GetItems(r) ==
    /\ AtQuery(r, "GET_items")
    /\ Settle(r, Result(FALSE, 0, company), 200, "itemList", FALSE)

GetStudentTitles(r) ==
    /\ AtQuery(r, "GET_studenttitles")
    /\ Settle(r, Result(FALSE, 0, company), 200, "titleList", FALSE)

GetCompanies(r) ==
    /\ AtQuery(r, "GET_companies")
    /\ company' = company
    /\ inUse' = inUse - 1
    /\ req' = [req EXCEPT ![r] =
                 [Respond(req[r], 200, "companyList")
                    EXCEPT !.sql = 1, !.list = CompanyList(company)]]
    /\ prev' = prev

\* req.db.query() rejects (the database fails the statement): catch responds
\* 500 with the generic body, finally releases the connection
QueryRejects(r) ==
    /\ req[r].pc = "query"
    /\ inUse' = inUse - 1
    /\ req' = [req EXCEPT ![r] =
                 [Respond(req[r], 500, "internal") EXCEPT !.sql = 1, !.fault = TRUE]]
    /\ UNCHANGED <<company, prev>>

\* what a handler does once its request is in
Handle(r) ==
    \/ GetDbConnection(r)
    \/ GetDbConnectionRejects(r)
    \/ PostCompany(r)
    \/ PatchCompany(r)
    \/ PutCompany(r)
    \/ DeleteCompany(r)
    \/ GetItems(r)
    \/ GetStudentTitles(r)
    \/ GetCompanies(r)
    \/ QueryRejects(r)

\* One request at a time, over the full range of request contents.
Next ==
    \/ Arrive("r1", Routes, IdInputs, NameInputs, CityInputs)
    \/ Handle("r1")

Spec == Init /\ [][Next]_vars

\* Two requests in flight, interleaved at their awaits.
NextConcurrent ==
    \E r \in Requests :
        \/ Arrive(r, Routes, IdInputs2, NameInputs2, CityInputs2)
        \/ Handle(r)

SpecConcurrent == Init /\ [][NextConcurrent]_vars

----------------------------------------------------------------------------
(* The claims *)

Done(q) == q.pc = "done"

\* this step is the one in which r's handler returns or throws
Finishes(r) == req[r].pc \in {"acquire", "query"} /\ req'[r].pc = "done"

\* r's request passed validation and is not PATCH's no-field case
Accepted(q) ==
    /\ ~q.errors
    /\ q.route = "PATCH" => ~(Falsy(q.companyName) /\ Falsy(q.companyCity))

RowsOf(t, id) == {row \in t : row.id = id}

\* every COMPANY_ID occurs in at most one row
KeyUnique == \A x, y \in company : x.id = y.id => x = y

\* C1: once every request has completed, no connection is checked out of
\* the pool, whatever route and exit path each request took.
C1_AllReleased ==
    (\A r \in Requests : Finished(req[r])) => inUse = 0

\* C2: a POST, PATCH, PUT or DELETE whose fields fail validation is answered
\* 400 with no connection acquired and no statement executed for it.
C2_ValidationBeforeDatabase ==
    \A r \in Requests :
        (Done(req[r]) /\ req[r].route \in MutatingRoutes /\ req[r].errors)
            => (req[r].status = 400 /\ ~req[r].db /\ req[r].sql = 0)

\* C3: a request whose getConnection() is rejected is answered 500 with the
\* generic body, and its handler raises no error.
C3_NoConnectionIs500 ==
    \A r \in Requests :
        (Done(req[r]) /\ ~req[r].db)
            => (req[r].status = 500 /\ req[r].body = "internal" /\ ~req[r].raised)

\* C4: a PUT that repeats the PUT just applied (same id, name and city, no
\* statement in between) leaves the table as it is and answers 200, not 201.
C4_PutIdempotent ==
    [][\A r \in Requests :
          (/\ AtQuery(r, "PUT")
           /\ Finishes(r)
           /\ ~req'[r].fault
           /\ prev = <<"PUT", req[r].companyId>>
           /\ Row(req[r].companyId, req[r].companyName, req[r].companyCity) \in company)
              => (company' = company /\ req'[r].status = 200)]_vars

\* C5: a PATCH with neither companyName nor companyCity is answered 400,
\* whatever its id, and leaves the table unchanged.
C5_PatchWithoutFieldsIs400 ==
    [][\A r \in Requests :
          (/\ req[r].route = "PATCH"
           /\ Falsy(req[r].companyName) /\ Falsy(req[r].companyCity)
           /\ Finishes(r))
              => (req'[r].status = 400 /\ company' = company)]_vars

\* C6: a PATCH (valid, with a field) of an id that has no row is answered 404
\* and leaves the table unchanged, unless the database fails the statement.
C6_PatchAbsentIs404 ==
    [][\A r \in Requests :
          (/\ req[r].route = "PATCH" /\ Accepted(req[r])
           /\ ~HasRow(company, req[r].companyId)
           /\ Finishes(r)
           /\ ~req'[r].fault)
              => (req'[r].status = 404 /\ company' = company)]_vars

\* C7: a DELETE of a valid id is answered 404 and changes nothing when the id
\* has no row, and is answered 200 and removes exactly that row when it has
\* one; a GET /api/companies that follows the DELETE lists no row of that id
\* and lists every row that is left.
C7_DeleteThenGet ==
    [][\A r \in Requests :
          /\ (/\ req[r].route = "DELETE" /\ Accepted(req[r])
              /\ Finishes(r)
              /\ ~req'[r].fault)
                 => IF HasRow(company, req[r].companyId)
                    THEN /\ req'[r].status = 200
                         /\ company' = company \ RowsOf(company, req[r].companyId)
                    ELSE /\ req'[r].status = 404
                         /\ company' = company
          /\ (/\ AtQuery(r, "GET_companies")
              /\ Finishes(r)
              /\ req'[r].status = 200
              /\ prev[1] = "DELETE")
                 => /\ \A e \in req'[r].list : e.id # prev[2]
                    /\ CompanyList(company) \subseteq req'[r].list]_vars

\* C8: a POST of a valid payload whose id has no row is answered 201, and a
\* GET /api/companies that follows it lists a row with the submitted id and
\* the sanitized name and city that the POST stored.
C8_PostThenGet ==
    [][\A r \in Requests :
          /\ (/\ req[r].route = "POST" /\ Accepted(req[r])
              /\ ~HasRow(company, req[r].companyId)
              /\ Finishes(r)
              /\ ~req'[r].fault)
                 => (/\ req'[r].status = 201
                     /\ Row(req[r].companyId, req[r].companyName, req[r].companyCity)
                            \in company')
          /\ (/\ AtQuery(r, "GET_companies")
              /\ Finishes(r)
              /\ req'[r].status = 200
              /\ prev[1] = "POST")
                 => \A row \in RowsOf(company, prev[2]) : row \in req'[r].list]_vars

\* C9: a POST (valid) of an id that has a row is answered 500 with the
\* generic body and leaves the table as it is; the table never holds two
\* rows of one id, also when POSTs of one id are in flight together.
C9_DuplicatePostIs500 ==
    [][/\ \A r \in Requests :
            (/\ req[r].route = "POST" /\ Accepted(req[r])
             /\ HasRow(company, req[r].companyId)
             /\ Finishes(r))
                => (/\ req'[r].status = 500
                    /\ req'[r].body = "internal"
                    /\ company' = company)
       /\ KeyUnique']_vars

\* C10: a PATCH answered 200 changes only the columns its body supplies:
\* the id of the row and every other row stay, and a column that is not
\* supplied keeps its value.
C10_PatchFrame ==
    [][\A r \in Requests :
          (/\ AtQuery(r, "PATCH")
           /\ Finishes(r)
           /\ req'[r].status = 200)
              => LET q == req[r]
                     old == RowsOf(company, q.companyId)
                     new == RowsOf(company', q.companyId)
                 IN /\ company' \ new = company \ old
                    /\ Cardinality(new) = Cardinality(old)
                    /\ Falsy(q.companyCity) => {x.city : x \in new} = {x.city : x \in old}
                    /\ Falsy(q.companyName) => {x.name : x \in new} = {x.name : x \in old}
                    /\ ~Falsy(q.companyName) => \A x \in new : x.name = q.companyName
                    /\ ~Falsy(q.companyCity) => \A x \in new : x.city = q.companyCity]_vars

\* a PATCH that supplied only companyName was answered 200: the row holds the
\* new name, the city another statement gave it, and a second row exists
C10_Witness ==
    \E r \in Requests :
        /\ Done(req[r]) /\ req[r].route = "PATCH" /\ req[r].status = 200
        /\ Falsy(req[r].companyCity)
        /\ req[r].companyName = <<"&", "l", "t", ";">>
        /\ Row(req[r].companyId, req[r].companyName, <<"q">>) \in company
        /\ \E other \in company : other.id # req[r].companyId /\ other.name = <<"x">>

====
